---- MODULE Spec2Model ----
(***************************************************************************)
(* Optic inventory collection engine (optic_inventory0.3.py): the driver   *)
(* of one device (process_device), the thread pool and result loop of      *)
(* main, and the two pure helpers parse_inventory_output and               *)
(* get_interface_status.                                                   *)
(***************************************************************************)
EXTENDS Integers, Sequences, FiniteSets, TLC

(***************************************************************************)
(* Strings.  A Python str is a TLA+ string in the state; the substring     *)
(* tests of the code ("x" in s, s.lower()) are computed on the characters  *)
(* of the string, listed here for every string the model uses.             *)
(***************************************************************************)
Chars(s) ==
    CASE s = "port" ->
           <<"p", "o", "r", "t">>
      [] s = "GigE" ->
           <<"G", "i", "g", "E">>
      [] s = "TenGigE" ->
           <<"T", "e", "n", "G", "i", "g", "E">>
      [] s = "is" ->
           <<"i", "s">>
      [] s = "up" ->
           <<"u", "p">>
      [] s = "down" ->
           <<"d", "o", "w", "n">>
      [] s = "administratively down" ->
           <<"a", "d", "m", "i", "n", "i", "s", "t", "r", "a", "t", "i", "v", "e", "l", "y", " ", "d", "o", "w", "n">>
      [] s = "is up" ->
           <<"i", "s", " ", "u", "p">>
      [] s = "connected" ->
           <<"c", "o", "n", "n", "e", "c", "t", "e", "d">>
      [] s = "notconnect" ->
           <<"n", "o", "t", "c", "o", "n", "n", "e", "c", "t">>
      [] s = "is down" ->
           <<"i", "s", " ", "d", "o", "w", "n">>
      [] s = "line protocol is" ->
           <<"l", "i", "n", "e", " ", "p", "r", "o", "t", "o", "c", "o", "l", " ", "i", "s">>
      [] s = "line protocol is up" ->
           <<"l", "i", "n", "e", " ", "p", "r", "o", "t", "o", "c", "o", "l", " ", "i", "s", " ", "u", "p">>
      [] s = "chassis" ->
           <<"c", "h", "a", "s", "s", "i", "s">>
      [] s = "TenGigE0/0/0/1" ->
           <<"T", "e", "n", "G", "i", "g", "E", "0", "/", "0", "/", "0", "/", "1">>
      [] s = "Port1" ->
           <<"P", "o", "r", "t", "1">>
      [] s = "Gi1" ->
           <<"G", "i", "1">>
      [] s = "Ethernet1/1" ->
           <<"E", "t", "h", "e", "r", "n", "e", "t", "1", "/", "1">>
      [] s = "Gi1 is up (connected)" ->
           <<"G", "i", "1", " ", "i", "s", " ", "u", "p", " ", "(", "c", "o", "n", "n", "e", "c", "t", "e", "d", ")">>
      [] s = "Ethernet1/1 is up" ->
           <<"E", "t", "h", "e", "r", "n", "e", "t", "1", "/", "1", " ", "i", "s", " ", "u", "p">>
      [] s = "Ethernet1/1 is up (notconnect)" ->
           <<"E", "t", "h", "e", "r", "n", "e", "t", "1", "/", "1", " ", "i", "s", " ", "u", "p", " ", "(", "n", "o", "t", "c", "o", "n", "n", "e", "c", "t", ")">>
      [] s = "Ethernet1/1 is down (notconnect)" ->
           <<"E", "t", "h", "e", "r", "n", "e", "t", "1", "/", "1", " ", "i", "s", " ", "d", "o", "w", "n", " ", "(", "n", "o", "t", "c", "o", "n", "n", "e", "c", "t", ")">>
      [] s = "Ethernet1/1 is administratively down" ->
           <<"E", "t", "h", "e", "r", "n", "e", "t", "1", "/", "1", " ", "i", "s", " ", "a", "d", "m", "i", "n", "i", "s", "t", "r", "a", "t", "i", "v", "e", "l", "y", " ", "d", "o", "w", "n">>
      [] s = "admin state is up" ->
           <<"a", "d", "m", "i", "n", " ", "s", "t", "a", "t", "e", " ", "i", "s", " ", "u", "p">>
      [] s = "Hardware: Ethernet" ->
           <<"H", "a", "r", "d", "w", "a", "r", "e", ":", " ", "E", "t", "h", "e", "r", "n", "e", "t">>
      [] s = "TenGigE0/0/0/1 is up, line protocol is up" ->
           <<"T", "e", "n", "G", "i", "g", "E", "0", "/", "0", "/", "0", "/", "1", " ", "i", "s", " ", "u", "p", ",", " ", "l", "i", "n", "e", " ", "p", "r", "o", "t", "o", "c", "o", "l", " ", "i", "s", " ", "u", "p">>
      [] s = "TenGigE0/0/0/1 is up, line protocol is down" ->
           <<"T", "e", "n", "G", "i", "g", "E", "0", "/", "0", "/", "0", "/", "1", " ", "i", "s", " ", "u", "p", ",", " ", "l", "i", "n", "e", " ", "p", "r", "o", "t", "o", "c", "o", "l", " ", "i", "s", " ", "d", "o", "w", "n">>
      [] s = "TenGigE0/0/0/1 is down, line protocol is down" ->
           <<"T", "e", "n", "G", "i", "g", "E", "0", "/", "0", "/", "0", "/", "1", " ", "i", "s", " ", "d", "o", "w", "n", ",", " ", "l", "i", "n", "e", " ", "p", "r", "o", "t", "o", "c", "o", "l", " ", "i", "s", " ", "d", "o", "w", "n">>
      [] s = "line protocol is administratively down" ->
           <<"l", "i", "n", "e", " ", "p", "r", "o", "t", "o", "c", "o", "l", " ", "i", "s", " ", "a", "d", "m", "i", "n", "i", "s", "t", "r", "a", "t", "i", "v", "e", "l", "y", " ", "d", "o", "w", "n">>
      [] s = "uplink Port1 is administratively down, line protocol is administratively down" ->
           <<"u", "p", "l", "i", "n", "k", " ", "P", "o", "r", "t", "1", " ", "i", "s", " ", "a", "d", "m", "i", "n", "i", "s", "t", "r", "a", "t", "i", "v", "e", "l", "y", " ", "d", "o", "w", "n", ",", " ", "l", "i", "n", "e", " ", "p", "r", "o", "t", "o", "c", "o", "l", " ", "i", "s", " ", "a", "d", "m", "i", "n", "i", "s", "t", "r", "a", "t", "i", "v", "e", "l", "y", " ", "d", "o", "w", "n">>
      [] s = "Interface state transitions: 3" ->
           <<"I", "n", "t", "e", "r", "f", "a", "c", "e", " ", "s", "t", "a", "t", "e", " ", "t", "r", "a", "n", "s", "i", "t", "i", "o", "n", "s", ":", " ", "3">>
      [] s = "full-duplex, media type is 10G" ->
           <<"f", "u", "l", "l", "-", "d", "u", "p", "l", "e", "x", ",", " ", "m", "e", "d", "i", "a", " ", "t", "y", "p", "e", " ", "i", "s", " ", "1", "0", "G">>
      [] s = "TenGigE0/0/0/1 is administratively down, line protocol is administratively down" ->
           <<"T", "e", "n", "G", "i", "g", "E", "0", "/", "0", "/", "0", "/", "1", " ", "i", "s", " ", "a", "d", "m", "i", "n", "i", "s", "t", "r", "a", "t", "i", "v", "e", "l", "y", " ", "d", "o", "w", "n", ",", " ", "l", "i", "n", "e", " ", "p", "r", "o", "t", "o", "c", "o", "l", " ", "i", "s", " ", "a", "d", "m", "i", "n", "i", "s", "t", "r", "a", "t", "i", "v", "e", "l", "y", " ", "d", "o", "w", "n">>
      [] s = "gige0/1" ->
           <<"g", "i", "g", "e", "0", "/", "1">>
      [] s = "" ->
           <<>>

LowerChar(c) ==
    CASE c = "E" -> "e"
      [] c = "G" -> "g"
      [] c = "H" -> "h"
      [] c = "I" -> "i"
      [] c = "P" -> "p"
      [] c = "T" -> "t"
      [] OTHER -> c

\* s.lower(), as a sequence of characters
Lower(s) == LET cs == Chars(s) IN [i \in 1..Len(cs) |-> LowerChar(cs[i])]

\* sub in cs, for a sequence of characters cs
Contains(sub, cs) ==
    LET n == Len(sub)
    IN  \E i \in 0..(Len(cs) - n) : \A j \in 1..n : cs[i + j] = sub[j]

\* "sub" in s
In(sub, s) == Contains(Chars(sub), Chars(s))

\* "sub" in s.lower()
InLower(sub, s) == Contains(Chars(sub), Lower(s))

(***************************************************************************)
(* Python values.  A dict is its key list (insertion order) and its value  *)
(* map.  None is the empty tuple and a str s is <<s>> where a variable may *)
(* hold either (the error_message of a result tuple).                      *)
(***************************************************************************)
EmptyDict == [keys |-> << >>, val |-> << >>]

\* d[k] = v
DictSet(d, k, v) ==
    [keys |-> IF k \in DOMAIN d.val THEN d.keys ELSE Append(d.keys, k),
     val  |-> (k :> v) @@ d.val]

\* bool(d) of a dict
DictTruthy(d) == Len(d.keys) > 0

None == << >>

Str(s) == <<s>>

\* bool(v) of a value that is None or a str
Truthy(v) == v # None /\ v[1] # ""

\* obj.get(key, default) of a parsed JSON object
JGet(obj, key, default) == IF key \in DOMAIN obj.m THEN obj.m[key] ELSE default

(***************************************************************************)
(* parse_inventory_output.  The output of a cisco_nxos device is the text  *)
(* handed to json.loads: either not JSON (valid = FALSE) or a JSON value,  *)
(* a record tagged t: "obj" with its member map m, "list" with its items,  *)
(* "null".  The fields of a row object are JSON strings.  The output of a  *)
(* free-text device is given by the matches re.finditer yields on it, in   *)
(* order, each with the five groups of the pattern.                        *)
(***************************************************************************)
\* a record created with a state already filled in
PortRecord_down(descr, pid, vid, sn) ==
    [Description |-> descr, PID |-> pid, VID |-> vid, SN |-> sn,
     Operational_State |-> "DOWN"]

\* the record the parser creates for one port (both branches)
PortRecord(descr, pid, vid, sn) ==
    [Description |-> descr, PID |-> pid, VID |-> vid, SN |-> sn,
     Operational_State |-> "Unknown"]

Returned(d) == [raised |-> FALSE, exc |-> "", dict |-> d]

Raised(msg) == [raised |-> TRUE, exc |-> msg, dict |-> EmptyDict]

\* the body of the loop over ROW_inv for one row: the row is kept only when
\* name, desc and productid are all truthy
NxosRow(item, acc) ==
    LET hasName  == "name" \in DOMAIN item.m /\ item.m["name"] # ""
        hasDescr == "desc" \in DOMAIN item.m /\ item.m["desc"] # ""
        pid      == JGet(item, "productid", "N/A")
        vid      == JGet(item, "vid", "N/A")
        sn       == JGet(item, "serialnum", "N/A")
    IN  IF hasName /\ hasDescr /\ pid # ""
        THEN DictSet(acc, item.m["name"], PortRecord(item.m["desc"], pid, vid, sn))
        ELSE acc

\* type(v).__name__ of a parsed JSON value
PyType(t) ==
    CASE t = "obj" -> "dict" [] t = "list" -> "list" [] t = "str" -> "str"
      [] OTHER -> "NoneType"

RECURSIVE NxosRows(_, _, _)
NxosRows(items, i, acc) ==
    IF i > Len(items) THEN Returned(acc)
    ELSE IF items[i].t # "obj"
         THEN Raised("'" \o PyType(items[i].t) \o "' object has no attribute 'get'")
         ELSE NxosRows(items, i + 1, NxosRow(items[i], acc))

parse_nxos(output) ==
    IF ~output.valid THEN Returned(EmptyDict)   \* json.JSONDecodeError, caught
    ELSE IF output.value.t # "obj"
    THEN Raised("'" \o PyType(output.value.t) \o "' object has no attribute 'get'")
    ELSE LET table == JGet(output.value, "TABLE_inv", [t |-> "obj", m |-> << >>])
         IN  IF table.t # "obj"
             THEN Raised("'" \o PyType(table.t) \o "' object has no attribute 'get'")
             ELSE LET rows == JGet(table, "ROW_inv", [t |-> "list", items |-> << >>])
                  IN  CASE rows.t = "list" -> NxosRows(rows.items, 1, EmptyDict)
                        [] rows.t = "obj"  ->
                             \* iterating a dict yields its keys, which are str
                             IF DOMAIN rows.m = {} THEN Returned(EmptyDict)
                             ELSE Raised("'str' object has no attribute 'get'")
                        [] OTHER -> Raised("'" \o PyType(rows.t) \o "' object is not iterable")

\* the name filter of the free-text branch
\* the filter with a case-sensitive test for "port"
IsPortName_cs(name) ==
    In("port", name) \/ In("GigE", name) \/ In("TenGigE", name)

\* the filter of the free-text branch on the name of an entry
IsPortName(name) ==
    InLower("port", name) \/ In("GigE", name) \/ In("TenGigE", name)

RECURSIVE parse_matches(_, _, _)
parse_matches(matches, i, acc) ==
    IF i > Len(matches) THEN acc
    ELSE LET g == matches[i]
         IN  parse_matches(matches, i + 1,
                 IF IsPortName(g.name)
                 THEN DictSet(acc, g.name, PortRecord(g.descr, g.pid, g.vid, g.sn))
                 ELSE acc)

parse_inventory_output(output, platform) ==
    IF platform = "cisco_nxos"
    THEN parse_nxos(output)
    ELSE Returned(parse_matches(output.matches, 1, EmptyDict))

(***************************************************************************)
(* get_interface_status: the status of one interface from the lines of the *)
(* "show interface" output (output.split('\n')).                           *)
(***************************************************************************)
\* the branches applied to the first line that has "is" and "up" or "down"
nxos_line_status(line) ==
    IF InLower("administratively down", line) THEN "ADMIN_DOWN"
    ELSE IF InLower("is up", line)
         THEN IF InLower("connected", line) THEN "UP"
              ELSE IF InLower("notconnect", line) THEN "DOWN"
              ELSE "UP"
         ELSE "DOWN"   \* "is down", or neither: status keeps its initial DOWN

RECURSIVE nxos_status(_, _)
nxos_status(lines, i) ==
    IF i > Len(lines) THEN "DOWN"
    ELSE IF InLower("is", lines[i]) /\ (InLower("up", lines[i]) \/ InLower("down", lines[i]))
         THEN nxos_line_status(lines[i])
         ELSE nxos_status(lines, i + 1)

\* xr_line_status with protocol_status set to the line status in the
\* administratively-down branch
xr_line_status_bad(line) ==
    IF InLower("up", line)
    THEN IF InLower("administratively down", line)
         THEN <<"ADMIN_DOWN", "ADMIN_DOWN">>
         ELSE IF InLower("line protocol is up", line)
              THEN <<"UP", "UP">>
              ELSE <<"UP", "DOWN">>
    ELSE <<"DOWN", "DOWN">>

\* <<status, protocol_status>> from the first line with "line protocol is"
xr_line_status(line) ==
    IF InLower("up", line)
    THEN IF InLower("administratively down", line)
         THEN <<"ADMIN_DOWN", "DOWN">>
         ELSE IF InLower("line protocol is up", line)
              THEN <<"UP", "UP">>
              ELSE <<"UP", "DOWN">>
    ELSE <<"DOWN", "DOWN">>

RECURSIVE xr_status(_, _)
xr_status(lines, i) ==
    IF i > Len(lines) THEN <<"DOWN", "DOWN">>
    ELSE IF InLower("line protocol is", lines[i])
         THEN xr_line_status(lines[i])
         ELSE xr_status(lines, i + 1)

\* the loop body skipping an empty reply: no entry is written for it
interface_status_entry_skip(platform, reply) ==
    IF reply.raised THEN [set |-> TRUE, status |-> "ERROR"]
    ELSE IF reply.lines = << >> THEN [set |-> FALSE, status |-> "Unknown"]
    ELSE IF platform = "cisco_nxos"
         THEN [set |-> TRUE, status |-> nxos_status(reply.lines, 1)]
         ELSE IF platform \in {"cisco_xr", "cisco_xe"}
              THEN LET st == xr_status(reply.lines, 1)
                   IN  [set |-> TRUE, status |-> st[1] \o "/" \o st[2]]
              ELSE [set |-> FALSE, status |-> "Unknown"]

\* the body of the loop for one interface: the entry written to
\* interface_status, if any.  reply is what send_command did: raised, or
\* returned the lines.
interface_status_entry(platform, reply) ==
    IF reply.raised THEN [set |-> TRUE, status |-> "ERROR"]
    ELSE IF platform = "cisco_nxos"
         THEN [set |-> TRUE, status |-> nxos_status(reply.lines, 1)]
         ELSE IF platform \in {"cisco_xr", "cisco_xe"}
              THEN LET st == xr_status(reply.lines, 1)
                   IN  [set |-> TRUE, status |-> st[1] \o "/" \o st[2]]
              ELSE [set |-> FALSE, status |-> "Unknown"]

(***************************************************************************)
(* Inputs: what the transport does when called.  An exception is given by  *)
(* str(e); strRaises marks an exception object whose str() itself raises.  *)
(***************************************************************************)
Exc(text) == [text |-> text, strRaises |-> FALSE]

BadExc == [text |-> "", strRaises |-> TRUE]

\* the text of the TypeError Python raises when str(e) fails
StrFailure == "__str__ returned non-string (type int)"

ConnectErrors == {Exc("Connection refused"), Exc(""), BadExc}

CommandErrors == {Exc("Pattern not detected"), Exc(""), BadExc}

StatusErrors == {Exc("Channel closed"), BadExc}

DisconnectErrors == {Exc("Socket is closed"), Exc("")}

Platforms == {"cisco_xr", "cisco_xe", "cisco_nxos", "cisco_ios"}

Supported == {"cisco_xr", "cisco_xe", "cisco_nxos"}

Match(name, descr) ==
    [name |-> name, descr |-> descr, pid |-> "SFP-10G-LR", vid |-> "V01", sn |-> "FNS1"]

Row(fields) == [t |-> "obj", m |-> fields]

JsonRows(rows) ==
    [valid |-> TRUE,
     value |-> [t |-> "obj",
                m |-> [k \in {"TABLE_inv"} |->
                         [t |-> "obj", m |-> [j \in {"ROW_inv"} |-> rows]]]]]

RowGi1 == Row([k \in {"name", "desc", "productid"} |->
                 CASE k = "name" -> "Gi1" [] k = "desc" -> "1000BASE-T"
                   [] OTHER -> "GLC-T"])

RowEth == Row([k \in {"name", "desc", "productid", "vid", "serialnum"} |->
                 CASE k = "name" -> "Ethernet1/1" [] k = "desc" -> "10GBASE-SR"
                   [] k = "productid" -> "SFP-10G-SR" [] k = "vid" -> "V03"
                   [] OTHER -> "AGD1"])

RowNoDesc == Row([k \in {"name", "productid"} |->
                    IF k = "name" THEN "Port1" ELSE "SFP-10G-SR"])

RowNoPid == Row([k \in {"name", "desc"} |->
                   IF k = "name" THEN "Ethernet1/1" ELSE "10GBASE-SR"])

RowEmptyPid == Row([k \in {"name", "desc", "productid"} |->
                      CASE k = "name" -> "Gi1" [] k = "desc" -> "1000BASE-T"
                        [] OTHER -> ""])

RowEmptyName == Row([k \in {"name", "desc", "productid"} |->
                       CASE k = "name" -> "" [] k = "desc" -> "1000BASE-T"
                         [] OTHER -> "GLC-T"])

\* inventory outputs of a free-text device
TextInventories ==
    { [matches |-> << >>],
      [matches |-> <<Match("chassis", "ASR 9006"), Match("TenGigE0/0/0/1", "10GBASE-LR")>>],
      [matches |-> <<Match("TenGigE0/0/0/1", "10GBASE-LR"), Match("Port1", "SFP")>>],
      [matches |-> <<Match("TenGigE0/0/0/1", "10GBASE-LR"), Match("TenGigE0/0/0/1", "10GBASE-SR")>>],
      [matches |-> <<Match("chassis", "ASR 9006"), Match("TenGigE0/0/0/1", "10GBASE-LR"),
                     Match("gige0/1", "1000BASE-T"), Match("TenGigE0/0/0/1", "10GBASE-SR")>>] }

\* inventory outputs of a cisco_nxos device
JsonInventories ==
    { [valid |-> FALSE, value |-> [t |-> "null"]],
      [valid |-> TRUE, value |-> [t |-> "list", items |-> << >>]],
      [valid |-> TRUE, value |-> [t |-> "obj", m |-> << >>]],
      JsonRows([t |-> "list", items |-> <<RowGi1, RowNoDesc, RowEth>>]),
      JsonRows([t |-> "list", items |-> <<RowGi1>>]),
      JsonRows(RowGi1),
      JsonRows([t |-> "list", items |-> <<RowNoPid, RowEmptyPid, RowNoDesc, RowEmptyName>>]),
      JsonRows([t |-> "list", items |-> <<RowGi1, [t |-> "str"]>>]),
      JsonRows([t |-> "null"]),
      [valid |-> TRUE,
       value |-> [t |-> "obj",
                  m |-> [k \in {"TABLE_inv"} |-> [t |-> "list", items |-> << >>]]]] }

InventoryOutputs(platform) ==
    IF platform = "cisco_nxos" THEN JsonInventories ELSE TextInventories

NxosLines ==
    { "Gi1 is up (connected)", "Ethernet1/1 is up", "Ethernet1/1 is up (notconnect)",
      "Ethernet1/1 is down (notconnect)", "Ethernet1/1 is administratively down",
      "admin state is up", "Hardware: Ethernet", "full-duplex, media type is 10G" }

TextLines ==
    { "TenGigE0/0/0/1 is up, line protocol is up",
      "TenGigE0/0/0/1 is up, line protocol is down",
      "TenGigE0/0/0/1 is down, line protocol is down",
      "line protocol is administratively down",
      "uplink Port1 is administratively down, line protocol is administratively down",
      "TenGigE0/0/0/1 is administratively down, line protocol is administratively down",
      "Interface state transitions: 3" }

\* status outputs: up to MaxLines lines
MaxLines == 2

LinesOver(S) == UNION {[1..n -> S] : n \in 0..MaxLines}

StatusOutputs(platform) ==
    IF platform = "cisco_nxos" THEN LinesOver(NxosLines) ELSE LinesOver(TextLines)

(***************************************************************************)
(* State.  A device is named by its position in the roster.                *)
(***************************************************************************)
VARIABLES
    devices,             \* the roster: device name -> device_type
    mainpc,              \* main: "submit", "collect", "done"
    submitted,           \* number of futures created so far, in roster order
    pc,                  \* process_device of each device: "idle", "queued",
                         \* "connect", "inventory", "status", "disconnect", "finished"
    optics_info,         \* process_device: the parsed dict of each device
    interface_status,    \* get_interface_status: the status map being filled
    pending,             \* get_interface_status: interface names still to query
    future,              \* the future of each device
    consumed,            \* futures already yielded by as_completed
    optics_data,         \* main: device name -> optics_info
    failed_connections,  \* main: device name -> error message
    report,              \* what the two save functions were given
    opened,              \* sessions get_device_connection has returned
    closed,              \* sessions whose disconnect has returned
    log,                 \* per device, the transport calls made, in order
    raisedAt,            \* per device, the calls that raised and the exception
    output,              \* process_device: the inventory output, once assigned
    status_output,       \* get_interface_status: the interface and the lines
                         \* of the last status output, once assigned
    hangs                \* per device, the transport call that never returns

vars == <<devices, mainpc, submitted, pc, optics_info, interface_status, pending,
          future, consumed, optics_data, failed_connections, report, opened,
          closed, log, raisedAt, output, status_output, hangs>>

Names == DOMAIN devices

\* ThreadPoolExecutor(max_workers=5)
max_workers == 5

\* largest roster of the batch specification
MaxDevices == 2

NoFuture == [done |-> FALSE, raised |-> FALSE, exc |-> "",
             result |-> [name |-> 0, optics_info |-> EmptyDict, error_message |-> None]]

\* process_device returns (name, optics_info, error_message)
FutureResult(d, info, err) ==
    [done |-> TRUE, raised |-> FALSE, exc |-> "",
     result |-> [name |-> d, optics_info |-> info, error_message |-> err]]

\* an exception leaves process_device
FutureException(msg) == [NoFuture EXCEPT !.done = TRUE, !.raised = TRUE, !.exc = msg]

\* the except clause of process_device: error_message = str(e), and the
\* result is (device_name, {}, error_message); when str(e) raises, that
\* exception leaves process_device
Handler(d, e) ==
    IF e.strRaises THEN FutureException(StrFailure)
    ELSE FutureResult(d, EmptyDict, Str(e.text))

\* the state when main starts, for a roster and the calls that never return
InitState(rosters, hanging) ==
    /\ devices \in rosters
    /\ hangs \in hanging
    /\ output = [d \in Names |-> << >>]
    /\ status_output = [d \in Names |-> << >>]
    /\ mainpc = "submit"
    /\ submitted = 0
    /\ pc = [d \in Names |-> "idle"]
    /\ optics_info = [d \in Names |-> EmptyDict]
    /\ interface_status = [d \in Names |-> << >>]
    /\ pending = [d \in Names |-> << >>]
    /\ future = [d \in Names |-> NoFuture]
    /\ consumed = {}
    /\ optics_data = << >>
    /\ failed_connections = << >>
    /\ report = [saved |-> FALSE, optics_data |-> << >>,
                 failed_saved |-> FALSE, failed_connections |-> << >>]
    /\ opened = {}
    /\ closed = {}
    /\ log = [d \in Names |-> << >>]
    /\ raisedAt = [d \in Names |-> << >>]

\* every transport call returns or raises
InitWith(rosters) == InitState(rosters, [Names -> {"none"}])

Rosters(sizes, platforms) == UNION {[1..n -> platforms] : n \in sizes}

(***************************************************************************)
(* main: the submissions, the as_completed loop, the report.               *)
(***************************************************************************)
\* executor.submit(process_device, name, info), in roster order
Submit ==
    /\ mainpc = "submit"
    /\ submitted < Cardinality(Names)
    /\ submitted' = submitted + 1
    /\ pc' = [pc EXCEPT ![submitted + 1] = "queued"]
    /\ UNCHANGED <<devices, hangs, output, status_output, mainpc, optics_info, interface_status, pending, future,
                   consumed, optics_data, failed_connections, report, opened,
                   closed, log, raisedAt>>

\* every future is created: main enters the as_completed loop
EnterLoop ==
    /\ mainpc = "submit"
    /\ submitted = Cardinality(Names)
    /\ mainpc' = "collect"
    /\ UNCHANGED <<devices, hangs, output, status_output, submitted, pc, optics_info, interface_status, pending,
                   future, consumed, optics_data, failed_connections, report,
                   opened, closed, log, raisedAt>>

\* Route with the success dict written for a failed device as well
Route_both(d, fut, dicts) ==
    IF fut.raised
    THEN [dicts EXCEPT !.failed_connections = (d :> fut.exc) @@ @]
    ELSE [dicts EXCEPT
            !.failed_connections =
                IF Truthy(fut.result.error_message)
                THEN (fut.result.name :> fut.result.error_message[1]) @@ @ ELSE @,
            !.optics_data = (fut.result.name :> fut.result.optics_info) @@ @]

\* Route with an except clause that only prints
Route_drop(d, fut, dicts) ==
    IF fut.raised
    THEN dicts
    ELSE IF Truthy(fut.result.error_message)
         THEN [dicts EXCEPT !.failed_connections =
                   (fut.result.name :> fut.result.error_message[1]) @@ @]
         ELSE [dicts EXCEPT !.optics_data =
                   (fut.result.name :> fut.result.optics_info) @@ @]

\* Route into lists: an outcome is stored at the position of its arrival
Route_positional(d, fut, dicts) ==
    IF fut.raised
    THEN [dicts EXCEPT !.failed_connections = Append(@, fut.exc)]
    ELSE IF Truthy(fut.result.error_message)
         THEN [dicts EXCEPT !.failed_connections = Append(@, fut.result.error_message[1])]
         ELSE [dicts EXCEPT !.optics_data = Append(@, fut.result.optics_info)]

\* the try body and the except clause of the as_completed loop: the routing
\* of one future's outcome into the two dicts
Route(d, fut, dicts) ==
    IF fut.raised
    THEN [dicts EXCEPT !.failed_connections = (d :> fut.exc) @@ @]
    ELSE IF Truthy(fut.result.error_message)
         THEN [dicts EXCEPT !.failed_connections =
                   (fut.result.name :> fut.result.error_message[1]) @@ @]
         ELSE [dicts EXCEPT !.optics_data =
                   (fut.result.name :> fut.result.optics_info) @@ @]

\* Consume without the inner try: an exception of future.result() ends main
Consume_abort(d) ==
    /\ mainpc = "collect"
    /\ future[d].done
    /\ d \notin consumed
    /\ consumed' = consumed \cup {d}
    /\ IF future[d].raised
       THEN /\ mainpc' = "done"
            /\ UNCHANGED <<optics_data, failed_connections>>
       ELSE LET r == Route(d, future[d], [optics_data |-> optics_data,
                                          failed_connections |-> failed_connections])
            IN  /\ optics_data' = r.optics_data
                /\ failed_connections' = r.failed_connections
                /\ mainpc' = mainpc
    /\ UNCHANGED <<devices, hangs, output, status_output, submitted, pc, optics_info, interface_status,
                   pending, future, report, opened, closed, log, raisedAt>>

\* one iteration of the as_completed loop, for a completed future
Consume(d) ==
    /\ mainpc = "collect"
    /\ future[d].done
    /\ d \notin consumed
    /\ consumed' = consumed \cup {d}
    /\ LET r == Route(d, future[d], [optics_data |-> optics_data,
                                     failed_connections |-> failed_connections])
       IN  /\ optics_data' = r.optics_data
           /\ failed_connections' = r.failed_connections
    /\ UNCHANGED <<devices, hangs, output, status_output, mainpc, submitted, pc, optics_info, interface_status,
                   pending, future, report, opened, closed, log, raisedAt>>

\* Save once the futures completed so far are consumed, as if as_completed
\* gave up on the others
Save_done ==
    /\ mainpc = "collect"
    /\ consumed = {d \in Names : future[d].done}
    /\ report' = [saved |-> TRUE, optics_data |-> optics_data,
                  failed_saved |-> failed_connections # << >>,
                  failed_connections |-> failed_connections]
    /\ mainpc' = "done"
    /\ UNCHANGED <<devices, hangs, output, status_output, submitted, pc, optics_info,
                   interface_status, pending, future, consumed, optics_data,
                   failed_connections, opened, closed, log, raisedAt>>

\* the loop has yielded every future: save_to_csv, and
\* save_failed_connections_to_csv when failed_connections is not empty
Save ==
    /\ mainpc = "collect"
    /\ consumed = Names
    /\ report' = [saved |-> TRUE, optics_data |-> optics_data,
                  failed_saved |-> failed_connections # << >>,
                  failed_connections |-> failed_connections]
    /\ mainpc' = "done"
    /\ UNCHANGED <<devices, hangs, output, status_output, submitted, pc, optics_info, interface_status, pending,
                   future, consumed, optics_data, failed_connections, opened,
                   closed, log, raisedAt>>

(***************************************************************************)
(* The pool: a free worker takes the oldest queued task.                   *)
(***************************************************************************)
Running == {d \in Names : pc[d] \in {"connect", "inventory", "status", "disconnect"}}

Start(d) ==
    /\ pc[d] = "queued"
    /\ \A e \in Names : pc[e] = "queued" => d <= e
    /\ Cardinality(Running) < max_workers
    /\ pc' = [pc EXCEPT ![d] = "connect"]
    /\ UNCHANGED <<devices, hangs, output, status_output, mainpc, submitted, optics_info, interface_status,
                   pending, future, consumed, optics_data, failed_connections,
                   report, opened, closed, log, raisedAt>>

(***************************************************************************)
(* process_device, one action per transport call.                          *)
(***************************************************************************)
Call(op, arg) == <<op, arg>>

Logged(d, call) == [log EXCEPT ![d] = Append(@, call)]

Noted(d, call, e) == [raisedAt EXCEPT ![d] = Append(@, [call |-> call, exc |-> e])]

\* the inventory command of a supported platform
InventoryCommand(platform) ==
    IF platform = "cisco_nxos" THEN "show inventory all | json" ELSE "show inventory"

\* Connect without the else branch of the platform test
Connect_nocheck(d, errs) ==
    /\ pc[d] = "connect"
    /\ hangs[d] # "connect"
    /\ log' = Logged(d, Call("connect", ""))
    /\ \/ \E e \in errs :
            /\ future' = [future EXCEPT ![d] = Handler(d, e)]
            /\ raisedAt' = Noted(d, Call("connect", ""), e)
            /\ pc' = [pc EXCEPT ![d] = "finished"]
            /\ opened' = opened
       \/ /\ opened' = opened \cup {d}
          /\ raisedAt' = raisedAt
          /\ pc' = [pc EXCEPT ![d] = "inventory"]
          /\ future' = future
    /\ UNCHANGED <<devices, hangs, output, status_output, mainpc, submitted, optics_info, interface_status,
                   pending, consumed, optics_data, failed_connections, report, closed>>

\* Connect with the disconnect in a finally clause
Connect_finally(d, errs) ==
    /\ pc[d] = "connect"
    /\ hangs[d] # "connect"
    /\ log' = Logged(d, Call("connect", ""))
    /\ \/ \E e \in errs :
            /\ future' = [future EXCEPT ![d] = Handler(d, e)]
            /\ raisedAt' = Noted(d, Call("connect", ""), e)
            /\ pc' = [pc EXCEPT ![d] = "disconnect"]
            /\ opened' = opened
       \/ /\ opened' = opened \cup {d}
          /\ raisedAt' = raisedAt
          /\ IF devices[d] \in Supported
             THEN /\ pc' = [pc EXCEPT ![d] = "inventory"]
                  /\ future' = future
             ELSE /\ pc' = [pc EXCEPT ![d] = "finished"]
                  /\ future' = [future EXCEPT ![d] =
                        FutureResult(d, EmptyDict,
                            Str("Unsupported platform: " \o devices[d]))]
    /\ UNCHANGED <<devices, hangs, output, status_output, mainpc, submitted, optics_info, interface_status,
                   pending, consumed, optics_data, failed_connections, report, closed>>

\* get_device_connection(device_info), then the choice of the command
Connect(d, errs) ==
    /\ pc[d] = "connect"
    /\ hangs[d] # "connect"
    /\ log' = Logged(d, Call("connect", ""))
    /\ \/ \E e \in errs :
            /\ future' = [future EXCEPT ![d] = Handler(d, e)]
            /\ raisedAt' = Noted(d, Call("connect", ""), e)
            /\ pc' = [pc EXCEPT ![d] = "finished"]
            /\ opened' = opened
       \/ /\ opened' = opened \cup {d}
          /\ raisedAt' = raisedAt
          /\ IF devices[d] \in Supported
             THEN /\ pc' = [pc EXCEPT ![d] = "inventory"]
                  /\ future' = future
             ELSE /\ pc' = [pc EXCEPT ![d] = "finished"]
                  /\ future' = [future EXCEPT ![d] =
                        FutureResult(d, EmptyDict,
                            Str("Unsupported platform: " \o devices[d]))]
    /\ UNCHANGED <<devices, hangs, output, status_output, mainpc, submitted, optics_info, interface_status,
                   pending, consumed, optics_data, failed_connections, report, closed>>

\* connection.send_command(command) and parse_inventory_output
Inventory(d, errs, outs) ==
    /\ pc[d] = "inventory"
    /\ hangs[d] # "send_command"
    /\ LET call == Call("send_command", InventoryCommand(devices[d]))
       IN  /\ log' = Logged(d, call)
           /\ \/ \E e \in errs :
                   /\ future' = [future EXCEPT ![d] = Handler(d, e)]
                   /\ raisedAt' = Noted(d, call, e)
                   /\ pc' = [pc EXCEPT ![d] = "finished"]
                   /\ UNCHANGED <<optics_info, pending, output>>
              \/ \E out \in outs :
                   LET parsed == parse_inventory_output(out, devices[d])
                   IN  /\ raisedAt' = raisedAt
                       /\ output' = [output EXCEPT ![d] = <<out>>]
                       /\ IF parsed.raised
                          THEN /\ future' = [future EXCEPT ![d] = Handler(d, Exc(parsed.exc))]
                               /\ pc' = [pc EXCEPT ![d] = "finished"]
                               /\ UNCHANGED <<optics_info, pending>>
                          ELSE /\ optics_info' = [optics_info EXCEPT ![d] = parsed.dict]
                               /\ pending' = [pending EXCEPT ![d] = parsed.dict.keys]
                               /\ pc' = [pc EXCEPT ![d] =
                                     IF DictTruthy(parsed.dict) THEN "status" ELSE "disconnect"]
                               /\ future' = future
    /\ UNCHANGED <<devices, hangs, status_output, mainpc, submitted, interface_status, consumed,
                   optics_data, failed_connections, report, opened, closed>>

\* the update loop reading the status of the first interface for every record
Merge_first(info, statuses) ==
    [info EXCEPT !.val = [k \in DOMAIN info.val |->
        [info.val[k] EXCEPT !.Operational_State =
            IF info.keys[1] \in DOMAIN statuses THEN statuses[info.keys[1]] ELSE "Unknown"]]]

\* the update loop of process_device: every record takes the status of its
\* own name, "Unknown" when the map has none
Merge(info, statuses) ==
    [info EXCEPT !.val = [k \in DOMAIN info.val |->
        [info.val[k] EXCEPT !.Operational_State =
            IF k \in DOMAIN statuses THEN statuses[k] ELSE "Unknown"]]]

\* Status leaving the loop after the reply for the first interface
Status_first(d, errs, outs) ==
    /\ pc[d] = "status"
    /\ hangs[d] # "send_command"
    /\ LET intf == Head(pending[d])
           call == Call("send_command", "show interface " \o intf)
           Step(reply) ==
               LET entry    == interface_status_entry(devices[d], reply)
                   statuses == IF entry.set
                               THEN (intf :> entry.status) @@ interface_status[d]
                               ELSE interface_status[d]
               IN  /\ interface_status' = [interface_status EXCEPT ![d] = statuses]
                   /\ pending' = [pending EXCEPT ![d] = Tail(@)]
                   /\ future' = future
                   /\ IF Len(pending[d]) >= 1
                      THEN /\ optics_info' = [optics_info EXCEPT ![d] = Merge(@, statuses)]
                           /\ pc' = [pc EXCEPT ![d] = "disconnect"]
                      ELSE UNCHANGED <<optics_info, pc>>
       IN  /\ log' = Logged(d, call)
           /\ \/ \E e \in errs :
                   /\ raisedAt' = Noted(d, call, e)
                   /\ status_output' = status_output
                   /\ IF e.strRaises
                      THEN /\ future' = [future EXCEPT ![d] = Handler(d, Exc(StrFailure))]
                           /\ pc' = [pc EXCEPT ![d] = "finished"]
                           /\ UNCHANGED <<optics_info, interface_status, pending>>
                      ELSE Step([raised |-> TRUE, lines |-> << >>])
              \/ \E lines \in outs :
                   /\ raisedAt' = raisedAt
                   /\ status_output' = [status_output EXCEPT ![d] =
                                            <<[intf |-> intf, lines |-> lines]>>]
                   /\ Step([raised |-> FALSE, lines |-> lines])
    /\ UNCHANGED <<devices, hangs, output, mainpc, submitted, consumed, optics_data,
                   failed_connections, report, opened, closed>>

\* one iteration of the loop of get_interface_status; after the last one the
\* map is returned and merged into optics_info.  A str(e) that raises while
\* the error is printed leaves get_interface_status as a TypeError.
Status(d, errs, outs) ==
    /\ pc[d] = "status"
    /\ hangs[d] # "send_command"
    /\ LET intf == Head(pending[d])
           call == Call("send_command", "show interface " \o intf)
           Step(reply) ==
               LET entry    == interface_status_entry(devices[d], reply)
                   statuses == IF entry.set
                               THEN (intf :> entry.status) @@ interface_status[d]
                               ELSE interface_status[d]
               IN  /\ interface_status' = [interface_status EXCEPT ![d] = statuses]
                   /\ pending' = [pending EXCEPT ![d] = Tail(@)]
                   /\ future' = future
                   /\ IF Len(pending[d]) = 1
                      THEN /\ optics_info' = [optics_info EXCEPT ![d] = Merge(@, statuses)]
                           /\ pc' = [pc EXCEPT ![d] = "disconnect"]
                      ELSE UNCHANGED <<optics_info, pc>>
       IN  /\ log' = Logged(d, call)
           /\ \/ \E e \in errs :
                   /\ raisedAt' = Noted(d, call, e)
                   /\ status_output' = status_output
                   /\ IF e.strRaises
                      THEN /\ future' = [future EXCEPT ![d] = Handler(d, Exc(StrFailure))]
                           /\ pc' = [pc EXCEPT ![d] = "finished"]
                           /\ UNCHANGED <<optics_info, interface_status, pending>>
                      ELSE Step([raised |-> TRUE, lines |-> << >>])
              \/ \E lines \in outs :
                   /\ raisedAt' = raisedAt
                   /\ status_output' = [status_output EXCEPT ![d] =
                                            <<[intf |-> intf, lines |-> lines]>>]
                   /\ Step([raised |-> FALSE, lines |-> lines])
    /\ UNCHANGED <<devices, hangs, output, mainpc, submitted, consumed, optics_data,
                   failed_connections, report, opened, closed>>

\* connection.disconnect() and the return of the result
Disconnect(d, errs) ==
    /\ pc[d] = "disconnect"
    /\ hangs[d] # "disconnect"
    /\ log' = Logged(d, Call("disconnect", ""))
    /\ pc' = [pc EXCEPT ![d] = "finished"]
    /\ \/ \E e \in errs :
            /\ future' = [future EXCEPT ![d] = Handler(d, e)]
            /\ raisedAt' = Noted(d, Call("disconnect", ""), e)
            /\ closed' = closed
       \/ /\ future' = [future EXCEPT ![d] = FutureResult(d, optics_info[d], None)]
          /\ raisedAt' = raisedAt
          /\ closed' = closed \cup {d}
    /\ UNCHANGED <<devices, hangs, output, status_output, mainpc, submitted, optics_info, interface_status,
                   pending, consumed, optics_data, failed_connections, report, opened>>

(***************************************************************************)
(* Specifications.  Spec: a batch over a roster of up to MaxDevices        *)
(* devices.  SpecDevice: a roster of one device, with every inventory and  *)
(* status output of the input sets.  SpecPool: a roster larger than the    *)
(* pool.                                                                   *)
(***************************************************************************)
\* the inputs of the batch specifications
BatchInventories(platform) ==
    IF platform = "cisco_nxos"
    THEN { [valid |-> FALSE, value |-> [t |-> "null"]],
           JsonRows([t |-> "list", items |-> <<RowGi1>>]) }
    ELSE { [matches |-> << >>],
           [matches |-> <<Match("chassis", "ASR 9006"), Match("TenGigE0/0/0/1", "10GBASE-LR")>>] }

BatchStatuses(platform) ==
    IF platform = "cisco_nxos"
    THEN { <<"Gi1 is up (connected)">> }
    ELSE { <<"TenGigE0/0/0/1 is up, line protocol is up">> }

\* one free-text platform, the JSON platform and an unsupported tag
BatchPlatforms == {"cisco_xr", "cisco_nxos", "cisco_ios"}

BatchCommandErrors == {Exc("Pattern not detected")}

BatchStatusErrors == {Exc("Channel closed")}

BatchDisconnectErrors == {Exc("Socket is closed")}

Init == InitWith(Rosters(0..MaxDevices, BatchPlatforms))

Next ==
    \/ Submit
    \/ EnterLoop
    \/ Save
    \/ \E d \in Names :
         \/ Consume(d)
         \/ Start(d)
         \/ Connect(d, ConnectErrors)
         \/ Inventory(d, BatchCommandErrors, BatchInventories(devices[d]))
         \/ Status(d, BatchStatusErrors, BatchStatuses(devices[d]))
         \/ Disconnect(d, BatchDisconnectErrors)

Spec == Init /\ [][Next]_vars

InitDevice == InitWith(Rosters({1}, Platforms))

NextDevice ==
    \/ Submit
    \/ EnterLoop
    \/ Save
    \/ \E d \in Names :
         \/ Consume(d)
         \/ Start(d)
         \/ Connect(d, ConnectErrors)
         \/ Inventory(d, CommandErrors, InventoryOutputs(devices[d]))
         \/ Status(d, StatusErrors, StatusOutputs(devices[d]))
         \/ Disconnect(d, DisconnectErrors)

SpecDevice == InitDevice /\ [][NextDevice]_vars

\* the batch under fair scheduling: every transport call returns or raises,
\* every worker thread and main keep running
FairSpec == Spec /\ WF_vars(Next)

\* rosters of max_workers + 1 devices, at most one of them supported
PoolRosters ==
    {r \in [1..(max_workers + 1) -> {"cisco_ios", "cisco_xr"}] :
        Cardinality({d \in DOMAIN r : r[d] = "cisco_xr"}) <= 1}

InitPool == InitWith(PoolRosters)

NextPool ==
    \/ Submit
    \/ EnterLoop
    \/ Save
    \/ \E d \in Names :
         \/ Consume(d)
         \/ Start(d)
         \/ Connect(d, {})
         \/ Inventory(d, BatchCommandErrors, {[matches |-> << >>],
                [matches |-> <<Match("TenGigE0/0/0/1", "10GBASE-LR")>>]})
         \/ Status(d, {}, BatchStatuses(devices[d]))
         \/ Disconnect(d, {})

SpecPool == InitPool /\ [][NextPool]_vars

\* devices of the roster with one hanging call; no more than max_workers
HangDevices == 3

\* a roster of free-text devices that behave normally, except that at most
\* one of them has a transport call that never returns
HangRosters == [1..HangDevices -> {"cisco_xr"}]

HangChoices ==
    {h \in [1..HangDevices -> {"none", "connect", "send_command", "disconnect"}] :
        Cardinality({d \in 1..HangDevices : h[d] # "none"}) <= 1}

InitHang == InitState(HangRosters, HangChoices)

NextHang ==
    \/ Submit
    \/ EnterLoop
    \/ Save
    \/ \E d \in Names :
         \/ Consume(d)
         \/ Start(d)
         \/ Connect(d, {})
         \/ Inventory(d, {}, {[matches |-> <<Match("TenGigE0/0/0/1", "10GBASE-LR")>>]})
         \/ Status(d, {}, BatchStatuses(devices[d]))
         \/ Disconnect(d, {})

SpecHang == InitHang /\ [][NextHang]_vars

\* fair scheduling of the calls that return, of the workers and of main
FairSpecHang == SpecHang /\ WF_vars(NextHang)

(***************************************************************************)
(* Properties.                                                             *)
(***************************************************************************)
Keys(dict) == DOMAIN dict

\* the driver of d has ended in failure: an error result, or an exception
DriverFailed(d) ==
    /\ future[d].done
    /\ future[d].raised \/ future[d].result.error_message # None

\* the driver of d has ended with a Success result
DriverSucceeded(d) ==
    /\ future[d].done
    /\ ~future[d].raised
    /\ future[d].result.error_message = None

\* the exceptions the call has raised for d
RaisedBy(d, op) ==
    {raisedAt[d][i].exc : i \in {j \in DOMAIN raisedAt[d] : raisedAt[d][j].call[1] = op}}

\* the arguments of the send_command calls made for d
Sent(d) == {log[d][i][2] : i \in {j \in DOMAIN log[d] : log[d][j][1] = "send_command"}}

StatusCommand(intf) == "show interface " \o intf

\* C1: the keys of optics_data and of failed_connections are disjoint at
\* every moment, they are the devices whose future was consumed, and once
\* the batch is over they are exactly the roster, in the dicts and in the
\* report.
C1_Partition ==
    /\ Keys(optics_data) \cap Keys(failed_connections) = {}
    /\ Keys(optics_data) \cup Keys(failed_connections) = consumed
    /\ mainpc = "done" =>
         /\ Keys(report.optics_data) \cup Keys(report.failed_connections) = Names
         /\ Keys(report.optics_data) \cap Keys(report.failed_connections) = {}

\* a finished batch of MaxDevices devices with a success and a failure
C1_Witness ==
    /\ mainpc = "done"
    /\ Cardinality(Names) >= 2
    /\ Keys(report.optics_data) # {}
    /\ Keys(report.failed_connections) # {}

\* C2: every consumed device whose driver ended in failure is a key of
\* failed_connections and not a key of optics_data, whatever the text of the
\* error.
C2_FailuresRouted ==
    \A d \in consumed :
        DriverFailed(d) => d \in Keys(failed_connections) /\ d \notin Keys(optics_data)

\* C3: the sessions opened and not yet closed are never more than
\* max_workers.
C3_OpenSessionsBounded == Cardinality(opened \ closed) <= max_workers

\* C4: when connect, inventory and parse succeeded and only disconnect
\* raised, the result is a Success with the merged records, and the device
\* goes to optics_data.
C4_DisconnectErrorIsSuccess ==
    \A d \in Names :
        (future[d].done /\ RaisedBy(d, "disconnect") # {}) =>
            /\ DriverSucceeded(d)
            /\ future[d].result.optics_info = optics_info[d]
            /\ d \in consumed => d \in Keys(optics_data) /\ d \notin Keys(failed_connections)

\* C5: an exception that leaves a driver and surfaces at future.result()
\* becomes the failed_connections entry of that device, with the text of the
\* exception; every entry of either dict is the outcome of its own device;
\* and the loop goes on until every future is consumed and the report saved.
C5_ExceptionIsolated ==
    /\ \A d \in consumed :
         future[d].raised =>
            /\ d \in Keys(failed_connections)
            /\ failed_connections[d] = future[d].exc
            /\ d \notin Keys(optics_data)
    /\ \A d \in Keys(optics_data) :
         /\ d \in consumed
         /\ ~future[d].raised
         /\ optics_data[d] = future[d].result.optics_info
    /\ \A d \in Keys(failed_connections) :
         /\ d \in consumed
         /\ ~future[d].raised => failed_connections[d] = future[d].result.error_message[1]
    /\ mainpc = "done" => consumed = Names /\ report.saved

\* the batch is over, one driver raised and another device is in optics_data
C5_Witness ==
    /\ mainpc = "done"
    /\ \E d, e \in Names :
         /\ future[d].raised
         /\ d \in Keys(failed_connections)
         /\ e \in Keys(optics_data)
         /\ DictTruthy(optics_data[e])

\* C6: under fair scheduling the batch finishes: every future is consumed
\* and both save steps are reached.
C6_BatchFinishes ==
    <>(/\ mainpc = "done"
       /\ consumed = Names
       /\ report.saved
       /\ report.failed_saved = (failed_connections # << >>))

\* a finished batch in which connect, a command, a status command and
\* disconnect each raised for some device
C6_Witness ==
    /\ mainpc = "done"
    /\ report.saved
    /\ \E d \in Names : RaisedBy(d, "connect") # {}
    /\ \E d \in Names : RaisedBy(d, "disconnect") # {}
    /\ \E d \in Names : RaisedBy(d, "send_command") # {}

\* C7 as stated: every finished device with an unsupported tag has the
\* result (name, {}, "Unsupported platform: <tag>") and no send_command.
C7_UnsupportedAlwaysReported ==
    \A d \in Names :
        (future[d].done /\ devices[d] \notin Supported) =>
            /\ ~future[d].raised
            /\ future[d].result.error_message = Str("Unsupported platform: " \o devices[d])
            /\ future[d].result.optics_info = EmptyDict
            /\ Sent(d) = {}

\* C7 amended: send_command is never called for a device with an
\* unsupported tag, its result never carries records, and when its session
\* opened the result is the "Unsupported platform" failure, which main puts
\* in failed_connections.
C7_UnsupportedNeverSends ==
    \A d \in Names :
        devices[d] \notin Supported =>
            /\ Sent(d) = {}
            /\ pc[d] \notin {"inventory", "status", "disconnect"}
            /\ future[d].done =>
                 /\ future[d].result.optics_info = EmptyDict
                 /\ d \in opened =>
                      /\ ~future[d].raised
                      /\ future[d].result.error_message =
                            Str("Unsupported platform: " \o devices[d])
                      /\ d \in consumed =>
                           /\ d \notin Keys(optics_data)
                           /\ failed_connections[d] = "Unsupported platform: " \o devices[d]

\* an unsupported device whose session opened has finished
C7_Witness ==
    \E d \in Names :
        /\ devices[d] \notin Supported
        /\ d \in opened
        /\ future[d].done
        /\ d \in Keys(failed_connections)

\* C8: when connect raised, connect is the only transport call ever made
\* for the device, and the driver ended in failure at once: its result is
\* (name, {}, str(e)), or the exception of str(e) when str(e) raises.
C8_ConnectFailure ==
    \A d \in Names :
        \A e \in RaisedBy(d, "connect") :
            /\ log[d] = <<Call("connect", "")>>
            /\ d \notin opened
            /\ DriverFailed(d)
            /\ future[d].result.optics_info = EmptyDict
            /\ IF e.strRaises THEN future[d].raised
               ELSE ~future[d].raised /\ future[d].result.error_message = Str(e.text)

\* the connect of a supported device raised and its outcome was consumed
C8_Witness ==
    \E d \in Names :
        /\ devices[d] \in Supported
        /\ RaisedBy(d, "connect") = {Exc("Connection refused")}
        /\ d \in consumed

\* the interfaces whose status command raised a transport error
StatusFailed(d) ==
    {intf \in DOMAIN optics_info[d].val :
        \E i \in DOMAIN raisedAt[d] :
            raisedAt[d][i].call = Call("send_command", StatusCommand(intf))}

\* C9: when status commands of a device raised transport errors (with a
\* description), once the driver is finished exactly those ports have state
\* ERROR, the status command was sent for every discovered port, and the
\* result is a Success with these records.
C9_StatusErrorIsolated ==
    \A d \in Names :
        (/\ future[d].done
         /\ StatusFailed(d) # {}
         /\ \A e \in RaisedBy(d, "send_command") : ~e.strRaises) =>
            /\ DriverSucceeded(d)
            /\ future[d].result.optics_info = optics_info[d]
            /\ \A intf \in DOMAIN optics_info[d].val :
                 /\ StatusCommand(intf) \in Sent(d)
                 /\ (optics_info[d].val[intf].Operational_State = "ERROR")
                        <=> (intf \in StatusFailed(d))

\* the states of the records of the Success outcomes in optics_data
ReportedStates ==
    UNION {{optics_data[d].val[p].Operational_State : p \in DOMAIN optics_data[d].val} :
              d \in Keys(optics_data)}

\* C10 as stated: every reported state is in the enumeration of the data
\* model.
C10_StatesInEnumeration ==
    ReportedStates \subseteq {"UP", "DOWN", "ADMIN_DOWN", "UP/DOWN", "Unknown", "ERROR"}

\* C10 amended: every reported state is in the enumeration extended with
\* the other combined states UP/UP, DOWN/DOWN, ADMIN_DOWN/DOWN.
C10_StatesInExtendedEnumeration ==
    ReportedStates \subseteq
        {"UP", "DOWN", "ADMIN_DOWN", "UP/DOWN", "Unknown", "ERROR",
         "UP/UP", "DOWN/DOWN", "ADMIN_DOWN/DOWN"}

\* a free-text device reported with a combined state, after a status line
\* with "line protocol is up"
C10_Witness ==
    \E d \in Keys(optics_data) :
        /\ devices[d] \in {"cisco_xr", "cisco_xe"}
        /\ \E p \in DOMAIN optics_data[d].val :
             optics_data[d].val[p].Operational_State = "UP/UP"

\* the least index of a set of line indices, 0 when the set is empty
FirstIndex(S) == IF S = {} THEN 0 ELSE CHOOSE i \in S : \A j \in S : i <= j

\* the devices with a status output, and that output
Queried == {d \in Names : status_output[d] # << >>}

LastOutput(d) == status_output[d][1]

\* the state merged into the record of the interface, once the merge is done
MergedIs(d, intf, state) ==
    /\ interface_status[d][intf] = state
    /\ pc[d] = "disconnect" => optics_info[d].val[intf].Operational_State = state

HasProtocolIs(line) == InLower("line protocol is", line)

\* C11: on cisco_xr and cisco_xe, when the first line with "line protocol
\* is" of a status output reads "line protocol is administratively down",
\* the state of the interface is ADMIN_DOWN/DOWN.
C11_AdminDownText ==
    \A d \in Queried :
        devices[d] \in {"cisco_xr", "cisco_xe"} =>
            LET lines == LastOutput(d).lines
                i == FirstIndex({k \in 1..Len(lines) : HasProtocolIs(lines[k])})
            IN  (i > 0 /\ InLower("line protocol is administratively down",
                                  LastOutput(d).lines[i]))
                    => MergedIs(d, LastOutput(d).intf, "ADMIN_DOWN/DOWN")

\* the line names the interface together with "is up" or "is down"
NamesInterface(intf, line) ==
    /\ Contains(Lower(intf), Lower(line))
    /\ InLower("is up", line) \/ InLower("is down", line)

\* the state such a line gives, by the priority order of the rules
StateOfLine(line) ==
    IF InLower("administratively down", line) THEN "ADMIN_DOWN"
    ELSE IF InLower("is up", line) /\ InLower("connected", line) THEN "UP"
    ELSE IF InLower("is up", line) /\ InLower("notconnect", line) THEN "DOWN"
    ELSE IF InLower("is up", line) THEN "UP"
    ELSE "DOWN"

\* C12: on cisco_nxos the state of an interface is the one given by the
\* first line of its status output that names the interface together with
\* "is up" or "is down"; the lines before that line do not count.
C12_FirstInterfaceLineDecides ==
    \A d \in Queried :
        devices[d] = "cisco_nxos" =>
            LET intf == LastOutput(d).intf
                lines == LastOutput(d).lines
                i == FirstIndex({k \in 1..Len(lines) : NamesInterface(intf, lines[k])})
            IN  i > 0 => MergedIs(d, intf, StateOfLine(LastOutput(d).lines[i]))

\* the devices whose inventory command has returned, and its output
Answered == {d \in Names : output[d] # << >>}

InventoryOf(d) == output[d][1]

Called(d, op) == \E i \in DOMAIN log[d] : log[d][i][1] = op

\* JSON-platform output that is not the expected structure: not JSON, a top
\* level that is not an object, a TABLE_inv that is not an object, a ROW_inv
\* that is not a list of row objects
Malformed(out) ==
    \/ ~out.valid
    \/ out.value.t # "obj"
    \/ /\ "TABLE_inv" \in DOMAIN out.value.m
       /\ LET table == out.value.m["TABLE_inv"]
          IN  \/ table.t # "obj"
              \/ /\ "ROW_inv" \in DOMAIN table.m
                 /\ LET rows == table.m["ROW_inv"]
                    IN  \/ rows.t # "list"
                        \/ \E i \in DOMAIN rows.items : rows.items[i].t # "obj"

\* C13: on cisco_nxos a malformed inventory output gives an empty parse
\* result without an exception: the driver goes on to disconnect, and its
\* result is a Success with an empty record set.
C13_MalformedIsEmptySuccess ==
    \A d \in Answered :
        (devices[d] = "cisco_nxos" /\ Malformed(InventoryOf(d))) =>
            /\ optics_info[d] = EmptyDict
            /\ pc[d] \in {"disconnect", "finished"}
            /\ pc[d] = "finished" =>
                 /\ Called(d, "disconnect")
                 /\ DriverSucceeded(d)
                 /\ future[d].result.optics_info = EmptyDict

\* the rows of a well-formed JSON inventory
RowsOf(out) ==
    IF "TABLE_inv" \in DOMAIN out.value.m /\ "ROW_inv" \in DOMAIN out.value.m["TABLE_inv"].m
    THEN out.value.m["TABLE_inv"].m["ROW_inv"].items
    ELSE << >>

\* the row has the field, not empty
Has(row, k) == k \in DOMAIN row.m /\ row.m[k] # ""

\* the devices whose JSON inventory was parsed, row by row
ParsedJson == {d \in Answered : devices[d] = "cisco_nxos" /\ ~Malformed(InventoryOf(d))}

\* C14: the records of a parsed JSON inventory are keyed by the names of
\* exactly the rows that have a name, a description and a product ID
\* (present and not empty).
C14_RowsWithAllThree ==
    \A d \in ParsedJson :
        LET rows == RowsOf(InventoryOf(d))
        IN  DOMAIN optics_info[d].val =
                {rows[i].m["name"] : i \in {j \in DOMAIN rows :
                    Has(rows[j], "name") /\ Has(rows[j], "desc") /\ Has(rows[j], "productid")}}

\* exactly one device has a call that never returns; the other devices
OneHung == Cardinality({d \in Names : hangs[d] # "none"}) = 1

Others == {d \in Names : hangs[d] = "none"}

\* the outcomes of the other devices are consumed into the dicts
OthersRecorded ==
    /\ consumed = Others
    /\ \A d \in Others :
         /\ DriverSucceeded(d)
         /\ d \in Keys(optics_data)
         /\ optics_data[d] = future[d].result.optics_info
         /\ DictTruthy(optics_data[d])

\* C15 as stated: with one device whose session call never returns, the
\* batch still comes to emit the report with the other devices.
C15_NoGlobalStall ==
    <>(OneHung => /\ report.saved
                  /\ Others \subseteq Keys(report.optics_data))

\* C15 amended: the drivers of the other devices run to completion and
\* their outcomes are consumed into the dicts, but main then waits for the
\* remaining future for ever: the report is never emitted.
C15_OthersRecordedNoReport ==
    /\ <>(OneHung => OthersRecorded)
    /\ [](OneHung => mainpc # "done" /\ ~report.saved)

\* every other device is recorded and main waits in the loop for the last
C15_Witness ==
    /\ OneHung
    /\ Cardinality(Others) = HangDevices - 1
    /\ HangDevices <= max_workers
    /\ OthersRecorded
    /\ mainpc = "collect"

\* the devices whose inventory parse returned a dict with no port
ZeroPorts ==
    {d \in Answered :
        /\ devices[d] \in Supported
        /\ parse_inventory_output(InventoryOf(d), devices[d]) = Returned(EmptyDict)}

\* C16: when the inventory parse of a supported device yields zero ports,
\* no per-interface status command is sent, the session is disconnected,
\* and the outcome is Success with an empty record set, which lands in the
\* success dict and not in the failure dict.
C16_ZeroPortsIsEmptySuccess ==
    \A d \in ZeroPorts :
        /\ Sent(d) = {InventoryCommand(devices[d])}
        /\ pc[d] \in {"disconnect", "finished"}
        /\ pc[d] = "finished" =>
             /\ Called(d, "disconnect")
             /\ DriverSucceeded(d)
             /\ future[d].result.optics_info = EmptyDict
        /\ d \in consumed =>
             /\ d \in Keys(optics_data)
             /\ optics_data[d] = EmptyDict
             /\ d \notin Keys(failed_connections)

\* the states of the records of a dict
StatesOf(info) == {info.val[k].Operational_State : k \in DOMAIN info.val}

\* the records of two dicts differ in nothing but their state
SameButState(a, b) ==
    /\ a.keys = b.keys
    /\ \A k \in DOMAIN a.val :
         [a.val[k] EXCEPT !.Operational_State = "Unknown"] =
         [b.val[k] EXCEPT !.Operational_State = "Unknown"]

\* the two writes of a device's records: the parse creates them, every
\* state Unknown; the merge step sets the states of the created records
CreatedByParse(d) ==
    /\ pc[d] = "inventory"
    /\ optics_info[d] = EmptyDict
    /\ optics_info'[d] = parse_inventory_output(output'[d][1], devices[d]).dict
    /\ StatesOf(optics_info'[d]) \subseteq {"Unknown"}

WrittenByMerge(d) ==
    /\ pc[d] = "status" /\ pc'[d] = "disconnect"
    /\ StatesOf(optics_info[d]) = {"Unknown"}
    /\ SameButState(optics_info[d], optics_info'[d])

\* C17: every record is created by the inventory parse with state Unknown;
\* its state is written once afterwards, by the merge step and never
\* before the parse created it; it is not changed again before the outcome
\* is returned and routed.
C17_StateWrittenOnce ==
    /\ [](\A d \in Names :
            /\ pc[d] \in {"idle", "queued", "connect", "inventory"} =>
                 optics_info[d] = EmptyDict
            /\ pc[d] = "status" => StatesOf(optics_info[d]) = {"Unknown"}
            /\ DriverSucceeded(d) => future[d].result.optics_info = optics_info[d]
            /\ (DriverSucceeded(d) /\ d \in consumed) => optics_data[d] = optics_info[d])
    /\ [][\A d \in Names :
            optics_info'[d] # optics_info[d] => CreatedByParse(d) \/ WrittenByMerge(d)]_vars
    /\ [][\A d \in Names :
            pc[d] \in {"disconnect", "finished"} => pc'[d] \in {"disconnect", "finished"}]_vars

\* a merged record has been reported: the success dict holds a record
\* whose state the merge step has set
C17_Witness ==
    \E d \in consumed :
        /\ DriverSucceeded(d)
        /\ optics_data[d] = optics_info[d]
        /\ StatesOf(optics_data[d]) # {}
        /\ "Unknown" \notin StatesOf(optics_data[d])

\* the orders in which the futures of a set can be consumed
Orders(S) ==
    {o \in [1..Cardinality(S) -> S] :
        \A i, j \in 1..Cardinality(S) : i # j => o[i] # o[j]}

\* the as_completed loop run over the futures in a given order
RECURSIVE RouteAll(_, _)
RouteAll(order, dicts) ==
    IF order = << >>
    THEN dicts
    ELSE RouteAll(Tail(order), Route(Head(order), future[Head(order)], dicts))

\* C18: for a fixed set of per-device outcomes the two dicts are the same
\* whatever order the futures complete in: routing the consumed outcomes in
\* any permutation gives the dicts main holds.
C18_OrderIndependent ==
    \A o \in Orders(consumed) :
        RouteAll(o, [optics_data |-> << >>, failed_connections |-> << >>]) =
            [optics_data |-> optics_data, failed_connections |-> failed_connections]

\* the second device of the roster was consumed before the first, which
\* has completed with a different outcome
C18_Witness ==
    /\ {1, 2} \subseteq Names
    /\ 2 \in consumed /\ 1 \notin consumed
    /\ DriverSucceeded(2) /\ 2 \in Keys(optics_data)
    /\ DriverFailed(1)

\* the entries the inventory pattern matched in the reply of a free-text device
EntriesOf(d) == InventoryOf(d).matches

\* the entries of a reply whose name contains "port" in any case, "GigE"
\* or "TenGigE"
KeptEntries(ms) ==
    {i \in 1..Len(ms) :
        \/ InLower("port", ms[i].name)
        \/ In("GigE", ms[i].name)
        \/ In("TenGigE", ms[i].name)}

\* the last kept entry of a name
LastKept(ms, name) ==
    CHOOSE i \in KeptEntries(ms) :
        /\ ms[i].name = name
        /\ \A j \in KeptEntries(ms) : ms[j].name = name => j <= i

FreeText == {d \in Answered : devices[d] \in Supported \ {"cisco_nxos"}}

\* C19: on free-text platforms, exactly the matched entries whose name
\* contains "port" (in any case), "GigE" or "TenGigE" become records, one
\* record per name, holding the fields of the last kept entry of that name.
C19_KeptEntriesBecomeRecords ==
    \A d \in FreeText :
        LET ms   == EntriesOf(d)
            info == optics_info[d]
        IN  /\ pc[d] \in {"status", "disconnect", "finished"}
            /\ {info.keys[i] : i \in 1..Len(info.keys)} = {ms[i].name : i \in KeptEntries(ms)}
            /\ Len(info.keys) = Cardinality({ms[i].name : i \in KeptEntries(ms)})
            /\ DOMAIN info.val = {ms[i].name : i \in KeptEntries(ms)}
            /\ \A name \in DOMAIN info.val :
                 LET g == ms[LastKept(ms, name)]
                 IN  /\ info.val[name].Description = g.descr
                     /\ info.val[name].PID = g.pid
                     /\ info.val[name].VID = g.vid
                     /\ info.val[name].SN = g.sn

\* a reply with a dropped "chassis" entry and two kept entries of one name:
\* the single record holds the description of the second
C19_Witness ==
    \E d \in FreeText :
        LET ms == EntriesOf(d)
        IN  /\ \E i \in 1..Len(ms) : ms[i].name = "chassis"
            /\ \E i, j \in KeptEntries(ms) :
                 i < j /\ ms[i].name = ms[j].name /\ ms[i].descr # ms[j].descr
            /\ optics_info[d].keys = <<"TenGigE0/0/0/1">>
            /\ optics_info[d].val["TenGigE0/0/0/1"].Description = "10GBASE-SR"

\* the status-line test of a platform
StatusLineTest(platform, line) ==
    IF platform = "cisco_nxos"
    THEN InLower("is", line) /\ (InLower("up", line) \/ InLower("down", line))
    ELSE InLower("line protocol is", line)

\* no line of the last status reply of d passes the test of d's platform
NoStatusLine(d) ==
    \A i \in 1..Len(LastOutput(d).lines) :
        ~StatusLineTest(devices[d], LastOutput(d).lines[i])

DefaultState(platform) == IF platform = "cisco_nxos" THEN "DOWN" ELSE "DOWN/DOWN"

\* C20: when no line of the status text passes the platform's status-line
\* test, the state is DOWN on cisco_nxos and DOWN/DOWN on cisco_xr and
\* cisco_xe, never Unknown and never ERROR.
C20_NoMatchDefaultsDown ==
    \A d \in Queried :
        (devices[d] \in Supported /\ NoStatusLine(d)) =>
            /\ LastOutput(d).intf \in DOMAIN interface_status[d]
            /\ MergedIs(d, LastOutput(d).intf, DefaultState(devices[d]))
            /\ interface_status[d][LastOutput(d).intf] \notin {"Unknown", "ERROR"}

\* a reply with lines, none of them a status line, has been merged as the
\* default state
C20_Witness ==
    \E d \in Queried :
        /\ devices[d] \in Supported
        /\ Len(LastOutput(d).lines) > 0
        /\ NoStatusLine(d)
        /\ pc[d] = "disconnect"
        /\ optics_info[d].val[LastOutput(d).intf].Operational_State = DefaultState(devices[d])

\* the calls of d on its session, in the order they were made
CallsOf(d) == log[d]

IsCommand(call) == call[1] = "send_command"

IsStatusCommand(d, call) ==
    IsCommand(call) /\ call[2] # InventoryCommand(devices[d])

\* the positions of CallsOf(d) before position i where the call is c
Before(d, i, c) == {j \in 1..(i - 1) : CallsOf(d)[j] = c}

\* C21: within one device the steps are strictly ordered: a command is sent
\* only after the session was opened, a status command only after the
\* inventory command has been answered and parsed, the disconnect only
\* after the status command of every discovered port has returned or
\* raised, and nothing is sent after the disconnect.
C21_StepsOrdered ==
    \A d \in Names :
        \A i \in 1..Len(CallsOf(d)) :
            LET call == CallsOf(d)[i]
            IN  /\ call[1] = "connect" => i = 1
                /\ IsCommand(call) =>
                     /\ Before(d, i, Call("connect", "")) # {}
                     /\ d \in opened
                /\ IsStatusCommand(d, call) =>
                     /\ Before(d, i, Call("send_command", InventoryCommand(devices[d]))) # {}
                     /\ d \in Answered
                     /\ \E k \in DOMAIN optics_info[d].val : call[2] = StatusCommand(k)
                /\ call[1] = "disconnect" =>
                     /\ i = Len(CallsOf(d))
                     /\ d \in opened
                     /\ \A k \in DOMAIN optics_info[d].val :
                          /\ Before(d, i, Call("send_command", StatusCommand(k))) # {}
                          /\ k \in DOMAIN interface_status[d]

\* a device with two discovered ports has been driven to its disconnect:
\* connect, inventory, two status commands, disconnect
C21_Witness ==
    \E d \in Names :
        /\ Len(CallsOf(d)) = 5
        /\ Cardinality(DOMAIN optics_info[d].val) = 2
        /\ CallsOf(d)[5] = Call("disconnect", "")
        /\ IsStatusCommand(d, CallsOf(d)[3]) /\ IsStatusCommand(d, CallsOf(d)[4])
        /\ pc[d] = "finished"

(***************************************************************************)
(* The 0.2 engine (optic_inventory_0.2.py).  Its parser is the parser of   *)
(* 0.3 with records of four fields; its driver sends no status command.    *)
(***************************************************************************)
\* the record the 0.2 parser creates for one port
PortRecord_02(descr, pid, vid, sn) ==
    [Description |-> descr, PID |-> pid, VID |-> vid, SN |-> sn]

\* the 0.2 parser: the same rows and entries kept under the same keys
parse_inventory_output_02(out, platform) ==
    LET p == parse_inventory_output(out, platform)
    IN  [p EXCEPT !.dict.val = [k \in DOMAIN p.dict.val |->
            PortRecord_02(p.dict.val[k].Description, p.dict.val[k].PID,
                          p.dict.val[k].VID, p.dict.val[k].SN)]]

\* what a transport call did: raised exc, or returned value
Reply(raised, exc, value) == [raised |-> raised, exc |-> exc, value |-> value]

\* process_device of 0.2 for the replies of connect, of the inventory
\* command and of disconnect
process_device_02(d, platform, conn, inv, disc) ==
    IF conn.raised THEN Handler(d, conn.exc)
    ELSE IF platform \notin Supported
    THEN FutureResult(d, EmptyDict, Str("Unsupported platform: " \o platform))
    ELSE IF inv.raised THEN Handler(d, inv.exc)
    ELSE LET parsed == parse_inventory_output_02(inv.value, platform)
         IN  IF parsed.raised THEN Handler(d, Exc(parsed.exc))
             ELSE IF disc.raised THEN Handler(d, disc.exc)
             ELSE FutureResult(d, parsed.dict, None)

\* the replies the 0.3 run of d got from connect and the inventory command
RepliesTo(d, call) ==
    IF \E i \in DOMAIN raisedAt[d] : raisedAt[d][i].call = call
    THEN {Reply(TRUE, raisedAt[d][i].exc, << >>) :
            i \in {j \in DOMAIN raisedAt[d] : raisedAt[d][j].call = call}}
    ELSE {Reply(FALSE, Exc(""), IF call[1] = "send_command" /\ d \in Answered
                                THEN InventoryOf(d) ELSE << >>)}

\* the disconnect behaviours that agree with the 0.3 run: what its
\* disconnect did, or any behaviour when it made no disconnect call
DisconnectReplies(d) ==
    IF Called(d, "disconnect")
    THEN RepliesTo(d, Call("disconnect", ""))
    ELSE {Reply(FALSE, Exc(""), << >>)} \cup {Reply(TRUE, e, << >>) : e \in DisconnectErrors}

\* the 0.2 outcomes of d under the connect, inventory-command and
\* disconnect behaviour of its 0.3 run
Outcomes_02(d) ==
    {process_device_02(d, devices[d], conn, inv, disc) :
        conn \in RepliesTo(d, Call("connect", "")),
        inv  \in RepliesTo(d, Call("send_command", InventoryCommand(devices[d]))),
        disc \in DisconnectReplies(d)}

\* a 0.3 dict of records with Operational_State removed
WithoutState(info) ==
    [info EXCEPT !.val = [k \in DOMAIN info.val |->
        PortRecord_02(info.val[k].Description, info.val[k].PID,
                      info.val[k].VID, info.val[k].SN)]]

\* a 0.3 outcome and a 0.2 outcome differ in the enrichment only
SameButEnrichment(f3, f2) ==
    /\ f3.raised = f2.raised
    /\ f3.exc = f2.exc
    /\ f3.result.error_message = f2.result.error_message
    /\ WithoutState(f3.result.optics_info) = f2.result.optics_info

\* C22: the 0.2 and the 0.3 engine differ only in the enrichment: under the
\* same connect, inventory-command and disconnect behaviour a device has the
\* same outcome in both (success or failure, the same error description) and
\* its 0.3 records without Operational_State are its 0.2 records, whatever
\* its status commands returned or raised.
C22_EnginesDifferInEnrichmentOnly ==
    \A d \in Names :
        future[d].done =>
            \A f2 \in Outcomes_02(d) : SameButEnrichment(future[d], f2)

\* C23: every session that was opened has been disconnected by the time the
\* outcome of its device is produced, also when the platform tag is
\* unsupported and when the inventory command raises.
C23_OpenedSessionsDisconnected ==
    \A d \in Names :
        (future[d].done /\ d \in opened) => Called(d, "disconnect")

\* the interface whose status command is the most recent call of d, if the
\* loop of get_interface_status went on after it
JustQueried(d) ==
    IF /\ pc[d] \in {"status", "disconnect"}
       /\ CallsOf(d) # << >>
       /\ IsStatusCommand(d, CallsOf(d)[Len(CallsOf(d))])
    THEN {k \in DOMAIN optics_info[d].val :
            CallsOf(d)[Len(CallsOf(d))] = Call("send_command", StatusCommand(k))}
    ELSE {}

\* the entry get_interface_status holds for an interface just queried: ERROR
\* when its command raised, else the status read from its own reply
OwnStatus(d, k) ==
    IF k \in StatusFailed(d) THEN "ERROR"
    ELSE IF LastOutput(d).intf = k
         THEN interface_status_entry(devices[d],
                  [raised |-> FALSE, lines |-> LastOutput(d).lines]).status
         ELSE "Unknown"

\* C24: in a Success outcome with at least one port no record is left in
\* state Unknown: every discovered port has an entry in the status map,
\* the entry of a port is the status (or ERROR) obtained by its own status
\* command and is not overwritten by a later one, and the record of a port
\* takes the entry of its own name.
C24_EveryRecordTakesItsOwnStatus ==
    /\ [](\A d \in Names :
            /\ \A k \in JustQueried(d) :
                 /\ k \in DOMAIN interface_status[d]
                 /\ interface_status[d][k] = OwnStatus(d, k)
            /\ (DriverSucceeded(d) /\ DictTruthy(future[d].result.optics_info)) =>
                 \A k \in DOMAIN future[d].result.optics_info.val :
                     /\ k \in DOMAIN interface_status[d]
                     /\ future[d].result.optics_info.val[k].Operational_State =
                            interface_status[d][k]
                     /\ interface_status[d][k] # "Unknown")
    /\ [][\A d \in Names : \A k \in DOMAIN interface_status[d] :
            /\ k \in DOMAIN interface_status'[d]
            /\ interface_status'[d][k] = interface_status[d][k]]_vars

\* a Success with two ports whose status commands gave different results,
\* one of them an error
C24_Witness ==
    \E d \in Names :
        /\ DriverSucceeded(d)
        /\ Cardinality(DOMAIN future[d].result.optics_info.val) = 2
        /\ Cardinality(StatusFailed(d)) = 1
        /\ \E k \in DOMAIN future[d].result.optics_info.val :
             future[d].result.optics_info.val[k].Operational_State \notin {"ERROR", "Unknown"}
====
